---- MODULE Spec2Model ----
(***************************************************************************)
(* steelscript-stock: the quote fetcher (core/app.py get_historical_prices *)
(* and appfwk StockQuery.get_historical_prices) and the multi-stock merge  *)
(* (MultiStockQuery.merge_price_history / run_query).                      *)
(*                                                                         *)
(* Text is modelled as sequences of one-character strings, so that         *)
(* str.split(','), day[:-2] and float() are computed as the code computes  *)
(* them.  A python dict row {'date': d, k1: v1, ...} is the record         *)
(* [date |-> d, cols |-> [k1 |-> v1, ...]].                                *)
(***************************************************************************)
EXTENDS Integers, Sequences, FiniteSets, TLC

\* Trading days are numbered 1..MaxDate (one character of date text each).
MaxDate == 2

Dates == 1..MaxDate

Tickers == {"AAA", "BBB", "CCC"}

TickerNo(t) == CASE t = "AAA" -> 1 [] t = "BBB" -> 2 [] OTHER -> 3

Min(S) == CHOOSE x \in S : \A y \in S : x <= y

Max(S) == CHOOSE x \in S : \A y \in S : x >= y

-----------------------------------------------------------------------------
(* Text helpers *)

DIGITS == <<"0", "1", "2", "3", "4", "5", "6", "7", "8", "9">>

IsDigit(c) == \E k \in 1..10 : DIGITS[k] = c

DigitVal(c) == (CHOOSE k \in 1..10 : DIGITS[k] = c) - 1

RECURSIVE NumText(_)
NumText(n) ==
    IF n < 10 THEN <<DIGITS[n + 1]>>
    ELSE Append(NumText(n \div 10), DIGITS[(n % 10) + 1])

RECURSIVE Join(_)
Join(fs) ==
    IF fs = <<>> THEN <<>>
    ELSE IF Len(fs) = 1 THEN fs[1]
    ELSE fs[1] \o <<",">> \o Join(Tail(fs))

\* python str.split(','): always at least one field
RECURSIVE Split(_)
Split(s) ==
    LET commas == {k \in 1..Len(s) : s[k] = ","} IN
    IF commas = {} THEN <<s>>
    ELSE LET k == Min(commas) IN
         <<SubSeq(s, 1, k - 1)>> \o Split(SubSeq(s, k + 1, Len(s)))

\* python s[:-2]
DropLast2(s) == IF Len(s) <= 2 THEN <<>> ELSE SubSeq(s, 1, Len(s) - 2)

Reverse(s) == [k \in 1..Len(s) |-> s[Len(s) + 1 - k]]

\* python float(text) on digit text: ValueError unless CanFloat
CanFloat(s) == s # <<>> /\ \A k \in 1..Len(s) : IsDigit(s[k])

RECURSIVE FloatVal(_)
FloatVal(s) ==
    IF Len(s) = 1 THEN DigitVal(s[1])
    ELSE 10 * FloatVal(SubSeq(s, 1, Len(s) - 1)) + DigitVal(s[Len(s)])

\* TimeParser.parse(text + ' 00:00'): a date text is one character "1".."9";
\* anything else (empty or truncated text) is refused with ValueError
IsDateText(s) == Len(s) = 1 /\ IsDigit(s[1]) /\ s[1] # "0"

DateVal(s) == DigitVal(s[1])

-----------------------------------------------------------------------------
(* The quote provider: what it would answer for each ticker *)

DateText(d) == <<DIGITS[d + 1]>>

\* the provider's number in column c (1 open .. 6 adj_close) for ticker t on day d
Quote(t, d, c) == TickerNo(t) * 100 + d * 10 + c

RowFields(t, d) == <<DateText(d)>> \o [c \in 1..6 |-> NumText(Quote(t, d, c))]

RECURSIVE SortDesc(_)
SortDesc(S) == IF S = {} THEN <<>> ELSE <<Max(S)>> \o SortDesc(S \ {Max(S)})

EolText(e) == IF e = "crlf" THEN <<"\r", "\n">> ELSE <<"\n">>

HeaderText == <<"D", "a", "t", "e", ",", "O", "p", "e", "n">>

\* m: [dates, cutDate, cutCols, eol, header, fault]; the row of cutDate carries
\* only its first cutCols fields (0: a blank line)
RowText(t, m, d) ==
    IF d = m.cutDate THEN Join(SubSeq(RowFields(t, d), 1, m.cutCols))
    ELSE Join(RowFields(t, d))

\* response body, newest row first, as lines [txt, eol]
Body(t, m) ==
    IF ~m.header THEN <<>>
    ELSE <<[txt |-> HeaderText, eol |-> EolText(m.eol)]>> \o
         LET ds == SortDesc(m.dates) IN
         [k \in 1..Len(ds) |-> [txt |-> RowText(t, m, ds[k]), eol |-> EolText(m.eol)]]

\* file.readlines(): lines with their terminators
ReadLines(body) == [k \in 1..Len(body) |-> body[k].txt \o body[k].eol]

\* Response.iter_lines(): lines without terminators
IterLines(body) == [k \in 1..Len(body) |-> body[k].txt]

\* python seq[1:]
From1(s) == IF s = <<>> THEN <<>> ELSE Tail(s)

-----------------------------------------------------------------------------
(* Row parsing shared by both fetchers *)

mapping == [open |-> 1, high |-> 2, low |-> 3, close |-> 4, volume |-> 5]

NoExc == [kind |-> "none", symbol |-> "", end |-> 0]

OtherExc(k) == [kind |-> k, symbol |-> "", end |-> 0]

StockApiException(symbol, end) ==
    [kind |-> "StockApiException", symbol |-> symbol, end |-> end]

\* daily_prices[m] = float(day[mapping[m]]) for one measure
MeasureExc(day, m) ==
    IF m \notin DOMAIN mapping THEN "none"
    ELSE IF Len(day) < mapping[m] + 1 THEN "IndexError"
    ELSE IF ~CanFloat(day[mapping[m] + 1]) THEN "ValueError"
    ELSE "none"

\* the first exception the loop body raises on one row, "none" if it completes
RowExc(day, measures, date_obj) ==
    IF date_obj /\ ~IsDateText(day[1]) THEN "ValueError"
    ELSE LET bad == {k \in 1..Len(measures) : MeasureExc(day, measures[k]) # "none"} IN
         IF bad = {} THEN "none" ELSE MeasureExc(day, measures[Min(bad)])

RowDict(day, measures, date_obj) ==
    [date |-> IF date_obj THEN DateVal(day[1]) ELSE day[1],
     cols |-> [m \in {measures[k] : k \in 1..Len(measures)} \cap DOMAIN mapping |->
                  FloatVal(day[mapping[m] + 1])]]

\* a fetcher that forgets reversed(): rows stay in the provider's order
IterOrderAsGiven(days) == days

IterOrder(days) == Reverse(days)

\* for day in reversed(days): ... ret.append(daily_prices)
ParseDays(days, measures, date_obj) ==
    LET rev == IterOrder(days)
        bad == {k \in 1..Len(rev) : RowExc(rev[k], measures, date_obj) # "none"}
    IN  IF bad = {}
        THEN [exc |-> "none",
              ret |-> [k \in 1..Len(rev) |-> RowDict(rev[k], measures, date_obj)]]
        ELSE [exc |-> RowExc(rev[Min(bad)], measures, date_obj), ret |-> <<>>]

-----------------------------------------------------------------------------
(* The two fetchers *)

\* core/app.py get_historical_prices(begin, end, symbol, measures, resolution,
\* date_obj) against provider state m.  Connection.request raises
\* RvbdHTTPException for an HTTP error status and RvbdConnectException when the
\* provider cannot be reached; only the former is caught.
CoreGetHistoricalPrices(end, symbol, measures, date_obj, m) ==
    IF m.fault = "http"
    THEN [exc |-> StockApiException(symbol, end), ret |-> <<>>]
    ELSE IF m.fault = "connect"
    THEN [exc |-> OtherExc("RvbdConnectException"), ret |-> <<>>]
    ELSE LET data == From1(IterLines(Body(symbol, m)))
             days == [k \in 1..Len(data) |-> Split(data[k])]
             p    == ParseDays(days, measures, date_obj)
         IN  [exc |-> IF p.exc = "none" THEN NoExc ELSE OtherExc(p.exc),
              ret |-> p.ret]

\* the exception StockQuery.get_historical_prices lets out for a parsing
\* exception k: `except IndexError: raise StockApiException(...)`
QueryExcept(k, symbol, t1) ==
    IF k = "none" THEN NoExc
    ELSE IF k = "IndexError" THEN StockApiException(symbol, t1)
    ELSE OtherExc(k)

\* appfwk StockQuery.get_historical_prices(symbol, measures, date_obj) with
\* self.t1 = t1.  urllib.urlopen raises IOError when the provider cannot be
\* reached and hands back the body whatever the HTTP status.
QueryGetHistoricalPrices(t1, symbol, measures, date_obj, m) ==
    IF m.fault = "connect"
    THEN [exc |-> OtherExc("IOError"), ret |-> <<>>]
    ELSE LET lines == From1(ReadLines(Body(symbol, m)))
             days  == [k \in 1..Len(lines) |-> Split(DropLast2(lines[k]))]
             p     == ParseDays(days, measures, date_obj)
         IN  [exc |-> QueryExcept(p.exc, symbol, t1), ret |-> p.ret]

-----------------------------------------------------------------------------
(* State *)

VARIABLES
    market,     \* provider state per ticker
    criteria,   \* job criteria: stock_device, stock_symbol, end_date
    requests,   \* tickers requested from the provider so far, in order
    fpc,        \* single fetch call: "start" or "done"
    fargs,      \* single fetch call: [measures, date_obj]
    fimpl,      \* single fetch call: which fetcher ran
    fout,       \* single fetch call: [exc, ret]
    pc,         \* position of the multi-stock query run
    prepared,   \* prepare() has set self.t0/t1/resolution/symbol/mapping/data
    data,       \* self.data
    measure,    \* run_query's measure argument
    idx,        \* tickers of self.symbol.split(",") already taken by the loop
    history,    \* the series of the current ticker, between fetch and merge
    fetched,    \* log: [ticker, his] per completed fetch, his as handed to the merge
    merges,     \* log: the tickers merged so far, in order
    columns,    \* the table's columns, [name, iskey]
    jobError,   \* job.mark_error was called
    outcome,    \* [returned, exc] of run()
    query,      \* the query class whose run() was called for the job
    runs,       \* jobs run on the table before the current one
    stale,      \* names of the non-key columns the table had when the job began
    cpc,        \* command line run: "start", "validated", "rejected", "done"
    options,    \* command line options: symbol, measures, resolution, begin, end
    today,      \* StockApp.today
    cerr        \* the parser.error message that ended the command line run

vars == <<market, criteria, requests, fpc, fargs, fimpl, fout, pc, prepared, data,
          measure, idx, history, fetched, merges, columns, jobError, outcome,
          query, runs, stale, cpc, options, today, cerr>>

fetchVars == <<fpc, fargs, fimpl, fout>>

runVars == <<pc, prepared, data, measure, idx, history, fetched, merges, columns,
             jobError, outcome, query, runs, stale>>

cliVars == <<cpc, options, today, cerr>>

QuietMarket == [dates |-> {}, cutDate |-> 0, cutCols |-> 0, eol |-> "lf",
                header |-> TRUE, fault |-> "none"]

KeyColumn == [name |-> "date", iskey |-> TRUE]

StaleColumn == [name |-> "OLD", iskey |-> FALSE]

RunIdle ==
    /\ pc = "idle" /\ prepared = FALSE /\ data = <<>> /\ measure = "None"
    /\ idx = 0 /\ history = <<>> /\ fetched = <<>> /\ merges = <<>>
    /\ columns = {KeyColumn, StaleColumn}
    /\ jobError = FALSE
    /\ outcome = [returned |-> "nothing", exc |-> NoExc]
    /\ query = "none" /\ runs = 0 /\ stale = {StaleColumn.name}

\* no command line run
CliIdle ==
    /\ cpc = "idle"
    /\ options = [symbol |-> "", measures |-> <<>>, resolution |-> "day",
                  begin |-> <<>>, end |-> <<>>]
    /\ today = MaxDate
    /\ cerr = "ok"

-----------------------------------------------------------------------------
(* SpecFetch: one call of a fetcher on any provider answer *)

FetchTicker == "AAA"

FetchMarkets ==
    {m \in [dates : SUBSET Dates, cutDate : {0} \cup Dates, cutCols : 0..6,
            eol : {"lf", "crlf"}, header : BOOLEAN,
            fault : {"none", "http", "connect"}] :
        /\ m.cutDate = 0 => m.cutCols = 0
        /\ m.cutDate # 0 => m.cutDate \in m.dates
        /\ ~m.header => m.dates = {} /\ m.eol = "lf"
        /\ m.fault # "none" => m.dates = {} /\ m.header /\ m.eol = "lf"}

FetchMeasures ==
    {<<"close">>, <<"volume">>, <<"open", "high", "low", "close">>, <<"open", "adjclose">>}

InitFetch ==
    /\ \E m \in FetchMarkets :
          market = [t \in Tickers |-> IF t = FetchTicker THEN m ELSE QuietMarket]
    /\ criteria = [stock_device |-> "dev", stock_symbol |-> <<FetchTicker>>,
                   end_date |-> MaxDate]
    /\ requests = <<>>
    /\ fpc = "start"
    /\ fargs \in [measures : FetchMeasures, date_obj : BOOLEAN]
    /\ fimpl = "none"
    /\ fout = [exc |-> NoExc, ret |-> <<>>]
    /\ RunIdle
    /\ CliIdle

\* core/app.py get_historical_prices called once
CoreCall ==
    /\ fpc = "start"
    /\ fpc' = "done"
    /\ fimpl' = "core"
    /\ requests' = Append(requests, FetchTicker)
    /\ fout' = CoreGetHistoricalPrices(criteria.end_date, FetchTicker,
                                       fargs.measures, fargs.date_obj,
                                       market[FetchTicker])
    /\ UNCHANGED <<market, criteria, fargs, runVars, cliVars>>

\* StockQuery.get_historical_prices called once on a prepared query
QueryCall ==
    /\ fpc = "start"
    /\ fpc' = "done"
    /\ fimpl' = "query"
    /\ requests' = Append(requests, FetchTicker)
    /\ fout' = QueryGetHistoricalPrices(criteria.end_date, FetchTicker,
                                        fargs.measures, fargs.date_obj,
                                        market[FetchTicker])
    /\ UNCHANGED <<market, criteria, fargs, runVars, cliVars>>

NextFetch == CoreCall \/ QueryCall

SpecFetch == InitFetch /\ [][NextFetch]_vars

-----------------------------------------------------------------------------
(* The multi-stock query *)

\* dict(x.items() + y.items()): keys of y win, 'date' included
DictMerge(x, y) ==
    [date |-> y.date,
     cols |-> [k \in DOMAIN x.cols \cup DOMAIN y.cols |->
                  IF k \in DOMAIN y.cols THEN y.cols[k] ELSE x.cols[k]]]

\* MultiStockQuery.merge_price_history: the new value of self.data
MergePriceHistory(d, his) ==
    IF d = <<>> THEN his
    ELSE IF Len(d) >= Len(his)
    THEN LET off == Len(d) - Len(his) IN
         [p \in 1..Len(d) |-> IF p > off THEN DictMerge(d[p], his[p - off]) ELSE d[p]]
    ELSE LET off == Len(his) - Len(d) IN
         [p \in 1..Len(his) |-> IF p > off THEN DictMerge(d[p - off], his[p]) ELSE his[p]]

\* a rename that forgets `del day[measure]`
RenameDayKeepMeasure(day, ticker, m) ==
    [date |-> day.date,
     cols |-> [k \in DOMAIN day.cols \cup {ticker} |->
                  IF k = ticker THEN day.cols[m] ELSE day.cols[k]]]

\* day[ticker] = day[measure]; del day[measure]
RenameDay(day, ticker, m) ==
    [date |-> day.date,
     cols |-> [k \in (DOMAIN day.cols \cup {ticker}) \ {m} |->
                  IF k = ticker THEN day.cols[m] ELSE day.cols[k]]]

RenameHistory(his, ticker, m) ==
    [k \in 1..Len(his) |-> RenameDay(his[k], ticker, m)]

\* a run_query whose deletion loop deletes nothing
KeptColumnsAll(cols) == cols

\* for c in self.table.get_columns(): if not c.iskey: c.delete()
KeptColumns(cols) == {c \in cols : c.iskey}

\* a loop that walks the ticker list from its end
TickerAtFromEnd(symbols, n) == symbols[Len(symbols) - n]

\* the ticker the loop of run_query takes after n completed iterations
TickerAt(symbols, n) == symbols[n + 1]

RunMarkets ==
    {m \in [dates : SUBSET Dates, cutDate : {0, 1}, cutCols : {0, 3},
            eol : {"lf"}, header : {TRUE}, fault : {"none", "connect"}] :
        /\ m.cutDate = 0 <=> m.cutCols = 0
        /\ m.cutDate # 0 => m.dates = Dates
        /\ m.fault # "none" => m.dates = {}}

Listed(symbols) == {symbols[k] : k \in 1..Len(symbols)}

SymbolLists ==
    {s \in UNION {[1..n -> Tickers] : n \in 1..Cardinality(Tickers)} :
        Cardinality(Listed(s)) = Len(s)}

Init ==
    /\ criteria \in [stock_device : {"", "dev"}, stock_symbol : SymbolLists,
                     end_date : {MaxDate}]
    /\ market \in [Tickers -> RunMarkets]
    /\ \A t \in Tickers \ Listed(criteria.stock_symbol) : market[t] = QuietMarket
    /\ requests = <<>>
    /\ fpc = "idle" /\ fimpl = "none"
    /\ fargs = [measures |-> <<>>, date_obj |-> FALSE]
    /\ fout = [exc |-> NoExc, ret |-> <<>>]
    /\ RunIdle
    /\ CliIdle

\* StockQuery.prepare as called (and its result dropped) by run()
Prepare ==
    IF criteria.stock_device = ""
    THEN /\ jobError' = TRUE
         /\ UNCHANGED <<prepared, data>>
    ELSE /\ prepared' = TRUE
         /\ data' = <<>>
         /\ UNCHANGED jobError

\* MultiStockPriceQuery.run up to the call of run_query()
RunPrice ==
    /\ pc = "idle"
    /\ Prepare
    /\ measure' = "None"
    /\ query' = "price"
    /\ pc' = "delete"
    /\ UNCHANGED <<market, criteria, requests, fetchVars, idx, history, fetched,
                   merges, columns, outcome, runs, stale>>
    /\ UNCHANGED cliVars

\* MultiStockVolumeQuery.run up to the call of run_query("volume")
RunVolume ==
    /\ pc = "idle"
    /\ Prepare
    /\ measure' = "volume"
    /\ query' = "volume"
    /\ pc' = "delete"
    /\ UNCHANGED <<market, criteria, requests, fetchVars, idx, history, fetched,
                   merges, columns, outcome, runs, stale>>
    /\ UNCHANGED cliVars

\* run_query: the column deletion loop, then self.symbol.split(",")
DeleteColumns ==
    /\ pc = "delete"
    /\ columns' = KeptColumns(columns)
    /\ IF prepared
       THEN pc' = "fetch" /\ UNCHANGED outcome
       ELSE /\ pc' = "raised"
            /\ outcome' = [returned |-> "nothing", exc |-> OtherExc("AttributeError")]
    /\ UNCHANGED <<market, criteria, requests, fetchVars, prepared, data, measure,
                   idx, history, fetched, merges, jobError, query, runs, stale>>
    /\ UNCHANGED cliVars

\* run_query, one loop iteration up to the return of get_historical_prices
FetchStep ==
    /\ pc = "fetch"
    /\ LET ticker == TickerAt(criteria.stock_symbol, idx)
           m      == IF measure = "None" THEN "close" ELSE measure
           r      == QueryGetHistoricalPrices(criteria.end_date, ticker, <<m>>,
                                              TRUE, market[ticker])
       IN  /\ columns' = columns \cup {[name |-> ticker, iskey |-> FALSE]}
           /\ measure' = m
           /\ requests' = Append(requests, ticker)
           /\ IF r.exc.kind = "none"
              THEN /\ history' = r.ret
                   /\ pc' = "merge"
                   /\ UNCHANGED outcome
              ELSE /\ pc' = "raised"
                   /\ outcome' = [returned |-> "nothing", exc |-> r.exc]
                   /\ UNCHANGED history
    /\ UNCHANGED <<market, criteria, fetchVars, prepared, data, idx, fetched,
                   merges, jobError, query, runs, stale>>
    /\ UNCHANGED cliVars

\* run_query, the rest of the iteration: rename the measure key, merge, and
\* return True after the last ticker
MergeStep ==
    /\ pc = "merge"
    /\ LET ticker == TickerAt(criteria.stock_symbol, idx)
           his    == RenameHistory(history, ticker, measure)
       IN  /\ data' = MergePriceHistory(data, his)
           /\ fetched' = Append(fetched, [ticker |-> ticker, raw |-> history,
                                          his |-> his, before |-> data])
           /\ merges' = Append(merges, ticker)
    /\ idx' = idx + 1
    /\ history' = <<>>
    /\ IF idx + 1 = Len(criteria.stock_symbol)
       THEN pc' = "done" /\ outcome' = [returned |-> "True", exc |-> NoExc]
       ELSE pc' = "fetch" /\ UNCHANGED outcome
    /\ UNCHANGED <<market, criteria, requests, fetchVars, prepared, measure,
                   columns, jobError, query, runs, stale>>
    /\ UNCHANGED cliVars

Next == RunPrice \/ RunVolume \/ DeleteColumns \/ FetchStep \/ MergeStep

Spec == Init /\ [][Next]_vars

-----------------------------------------------------------------------------
(* SpecRuns: successive jobs on one table, each with a new query object *)

\* jobs after the first one
MaxRuns == 2

NonKeyNames(cols) == {c.name : c \in {x \in cols : ~x.iskey}}

RunsMarket ==
    [t \in Tickers |->
        IF t = "AAA" THEN [QuietMarket EXCEPT !.dates = Dates]
        ELSE IF t = "BBB" THEN [QuietMarket EXCEPT !.dates = {1}]
        ELSE [QuietMarket EXCEPT !.fault = "connect"]]

JobCriteria ==
    [stock_device : {"", "dev"}, stock_symbol : SymbolLists, end_date : {MaxDate}]

InitRuns ==
    /\ criteria \in JobCriteria
    /\ market = RunsMarket
    /\ requests = <<>>
    /\ fpc = "idle" /\ fimpl = "none"
    /\ fargs = [measures |-> <<>>, date_obj |-> FALSE]
    /\ fout = [exc |-> NoExc, ret |-> <<>>]
    /\ RunIdle
    /\ CliIdle

\* SingleStockQuery.run, for a table given one ticker symbol
RunSingle ==
    /\ pc = "idle"
    /\ Len(criteria.stock_symbol) = 1
    /\ Prepare
    /\ query' = "single"
    /\ IF ~prepared'
       THEN /\ pc' = "raised"
            /\ outcome' = [returned |-> "nothing", exc |-> OtherExc("AttributeError")]
            /\ UNCHANGED requests
       ELSE LET ticker == criteria.stock_symbol[1]
                r == QueryGetHistoricalPrices(criteria.end_date, ticker,
                                              <<"open", "high", "low", "close">>,
                                              FALSE, market[ticker])
            IN  /\ requests' = Append(requests, ticker)
                /\ IF r.exc.kind = "none"
                   THEN pc' = "returned" /\ outcome' = [returned |-> "True", exc |-> NoExc]
                   ELSE pc' = "raised" /\ outcome' = [returned |-> "nothing", exc |-> r.exc]
    /\ UNCHANGED <<market, criteria, fetchVars, measure, idx, history, fetched,
                   merges, columns, runs, stale>>
    /\ UNCHANGED cliVars

\* the next job on the same table: new criteria, a new query object
NewJob ==
    /\ pc \in {"done", "returned", "raised"}
    /\ runs < MaxRuns
    /\ runs' = runs + 1
    /\ criteria' \in JobCriteria
    /\ stale' = NonKeyNames(columns)
    /\ pc' = "idle" /\ prepared' = FALSE /\ data' = <<>> /\ measure' = "None"
    /\ idx' = 0 /\ history' = <<>> /\ fetched' = <<>> /\ merges' = <<>>
    /\ requests' = <<>>
    /\ jobError' = FALSE
    /\ outcome' = [returned |-> "nothing", exc |-> NoExc]
    /\ query' = "none"
    /\ UNCHANGED <<market, fetchVars, columns>>
    /\ UNCHANGED cliVars

NextRuns == Next \/ RunSingle \/ NewJob

SpecRuns == InitRuns /\ [][NextRuns]_vars

-----------------------------------------------------------------------------
(* The command line application: StockApp.validate_args, then StockApp.main *)

\* An option text is a sequence of tokens: a measure name or "," for the
\* measures option, one date character for begin and end.  <<>> is an option
\* that is absent or empty (both fail `not self.options.x`).

KnownMeasures == {"open", "high", "low", "close", "volume"}

KnownResolutions == {"day", "week"}

\* one element of self.options.measures.split(',') as a string
FieldName(f) == IF Len(f) = 1 THEN f[1] ELSE ""

MeasureList(text) == LET fs == Split(text) IN [k \in 1..Len(fs) |-> FieldName(fs[k])]

\* a begin check against the later of end date and today
BeginLimitLatest(end_date, now) == Max({end_date, now})

\* min(end_date, parse_date(self.today))
BeginLimit(end_date, now) == Min({end_date, now})

\* validate_args: the message of the first parser.error reached, "ok" if none
ValidateArgs(o, now) ==
    IF o.symbol = "" THEN "Symbol needs to be specified"
    ELSE IF o.measures = <<>> THEN "Measures needs to be specified"
    ELSE IF \E k \in 1..Len(MeasureList(o.measures)) :
               MeasureList(o.measures)[k] \notin KnownMeasures
    THEN "Invalid measure"
    ELSE IF o.resolution \notin KnownResolutions THEN "Invalid resolution"
    ELSE IF o.begin = <<>> THEN "Begin date needs to be specified"
    ELSE IF ~IsDateText(o.begin) THEN "Begin date is invalid"
    ELSE IF ~IsDateText(o.end) THEN "End date is invalid"
    ELSE IF DateVal(o.begin) > BeginLimit(DateVal(o.end), now)
    THEN "Begin date is later than either today's date or end date"
    ELSE "ok"

MarketOf(symbol) == IF symbol \in Tickers THEN market[symbol] ELSE QuietMarket

CliMarkets ==
    {[QuietMarket EXCEPT !.dates = Dates], [QuietMarket EXCEPT !.fault = "http"]}

CliMeasureTexts ==
    {<<>>, <<"close">>, <<"open", ",", "volume">>, <<"adjclose">>,
     <<"close", ",">>, <<"close", ",", "adjclose">>}

CliDateTexts == {DateText(d) : d \in Dates} \cup {<<"x">>}

InitCli ==
    /\ \E m \in CliMarkets :
          market = [t \in Tickers |-> IF t = FetchTicker THEN m ELSE QuietMarket]
    /\ criteria = [stock_device |-> "dev", stock_symbol |-> <<FetchTicker>>,
                   end_date |-> MaxDate]
    /\ requests = <<>>
    /\ fpc = "idle" /\ fimpl = "none"
    /\ fargs = [measures |-> <<>>, date_obj |-> FALSE]
    /\ fout = [exc |-> NoExc, ret |-> <<>>]
    /\ RunIdle
    /\ cpc = "start"
    /\ today \in Dates
    /\ options \in [symbol : {"", FetchTicker}, measures : CliMeasureTexts,
                    resolution : {"day", "week", "month"},
                    begin : CliDateTexts \cup {<<>>},
                    end : CliDateTexts]
    /\ cerr = "ok"

\* Application.run: validate_args; parser.error ends the process
CliValidate ==
    /\ cpc = "start"
    /\ cerr' = ValidateArgs(options, today)
    /\ cpc' = IF cerr' = "ok" THEN "validated" ELSE "rejected"
    /\ UNCHANGED <<market, criteria, requests, fetchVars, runVars, options, today>>

\* Application.run: main, after validate_args returned
CliMain ==
    /\ cpc = "validated"
    /\ cpc' = "done"
    /\ fimpl' = "core"
    /\ fargs' = [measures |-> MeasureList(options.measures), date_obj |-> FALSE]
    /\ requests' = Append(requests, options.symbol)
    /\ fout' = CoreGetHistoricalPrices(options.end, options.symbol,
                                       MeasureList(options.measures), FALSE,
                                       MarketOf(options.symbol))
    /\ UNCHANGED <<market, criteria, fpc, runVars, options, today, cerr>>

NextCli == CliValidate \/ CliMain

SpecCli == InitCli /\ [][NextCli]_vars

-----------------------------------------------------------------------------
(* Properties *)

RECURSIVE SortAsc(_)
SortAsc(S) == IF S = {} THEN <<>> ELSE <<Min(S)>> \o SortAsc(S \ {Min(S)})

DateSet(s) == {s[k].date : k \in 1..Len(s)}

Ascending(s) == \A j, k \in 1..Len(s) : j < k => s[j].date < s[k].date

IsPrefix(s, t) == Len(s) <= Len(t) /\ \A k \in 1..Len(s) : s[k] = t[k]

\* the dates of every series folded into self.data so far
FoldedDates == UNION {DateSet(fetched[k].his) : k \in 1..Len(fetched)}

DistinctKeys == \A j, k \in 1..Len(fetched) : j # k => fetched[j].ticker # fetched[k].ticker

\* C1: after folding any sequence of series into an empty self.data, the dates
\* of self.data are the union of the dates of the folded series, each date in
\* exactly one row (for two series: |dates(A) \cup dates(B)| rows).
C1_OuterJoinDates ==
    DistinctKeys =>
        /\ DateSet(data) = FoldedDates
        /\ Len(data) = Cardinality(FoldedDates)

\* C2: every value stored under column key k in the row for date d is the
\* value the series of k holds for date d, and a date present in two series has
\* one row carrying both values (alignment by date, never by position).
C2_AlignedByDate ==
    DistinctKeys =>
        /\ \A p \in 1..Len(data) : \A k \in DOMAIN data[p].cols :
              \E j \in 1..Len(fetched) :
                 /\ fetched[j].ticker = k
                 /\ \E q \in 1..Len(fetched[j].his) :
                       /\ fetched[j].his[q].date = data[p].date
                       /\ fetched[j].his[q].cols[k] = data[p].cols[k]
        /\ \A j \in 1..Len(fetched) : \A q \in 1..Len(fetched[j].his) :
              \E p \in 1..Len(data) :
                 /\ data[p].date = fetched[j].his[q].date
                 /\ fetched[j].ticker \in DOMAIN data[p].cols
                 /\ data[p].cols[fetched[j].ticker] =
                       fetched[j].his[q].cols[fetched[j].ticker]

\* C3: after merging A (key ka) then B (key kb), a row whose date is in
\* dates(A) \ dates(B) has kb unset and a row whose date is in
\* dates(B) \ dates(A) has ka unset.
C3_ColumnSparsity ==
    (Len(fetched) = 2 /\ DistinctKeys) =>
        LET A == fetched[1]
            B == fetched[2]
        IN  \A p \in 1..Len(data) :
               /\ data[p].date \in DateSet(A.his) \ DateSet(B.his)
                     => B.ticker \notin DOMAIN data[p].cols
               /\ data[p].date \in DateSet(B.his) \ DateSet(A.his)
                     => A.ticker \notin DOMAIN data[p].cols

\* C4: after every merge_price_history call whose inputs (self.data and the new
\* series) are strictly ascending by date, self.data is strictly ascending by
\* date.
C4_AscendingAfterMerge ==
    (fetched # <<>> /\ Ascending(fetched[Len(fetched)].before)
                    /\ Ascending(fetched[Len(fetched)].his))
        => Ascending(data)

\* C5: with a single symbol merged into the empty self.data, self.data has the
\* dates, order and values of the fetched series, the measure column renamed to
\* the ticker and the measure key absent.
C5_SingleSymbolIdentity ==
    Len(fetched) = 1 =>
        LET e == fetched[1] IN
        /\ e.before = <<>>
        /\ Len(data) = Len(e.raw)
        /\ \A k \in 1..Len(data) :
              /\ data[k].date = e.raw[k].date
              /\ DOMAIN data[k].cols = {e.ticker}
              /\ measure \notin DOMAIN data[k].cols
              /\ data[k].cols[e.ticker] = e.raw[k].cols[measure]

C5_Witness ==
    /\ pc = "done"
    /\ Len(criteria.stock_symbol) = 1
    /\ Len(data) = MaxDate
    /\ measure = "close"

WellFormed(m) == m.header /\ m.fault = "none" /\ m.cutDate = 0

\* C6: for a response of a header line and well-formed rows, newest first, both
\* fetchers drop the header and return one record per row, oldest first, none
\* lost or duplicated.
C6_OldestFirst ==
    (fpc = "done" /\ WellFormed(market[FetchTicker])) =>
        LET asc == SortAsc(market[FetchTicker].dates) IN
        /\ fout.exc.kind = "none"
        /\ Len(fout.ret) = Len(asc)
        /\ \A k \in 1..Len(fout.ret) :
              /\ fout.ret[k].date =
                    (IF fargs.date_obj THEN asc[k] ELSE DateText(asc[k]))
              /\ \A m \in DOMAIN fout.ret[k].cols :
                    fout.ret[k].cols[m] = Quote(FetchTicker, asc[k], mapping[m])

C6_Witness ==
    /\ fpc = "done" /\ fimpl = "query"
    /\ WellFormed(market[FetchTicker])
    /\ market[FetchTicker].dates = Dates
    /\ market[FetchTicker].eol = "lf"
    /\ Len(fout.ret) = MaxDate
    /\ fargs.measures = <<"open", "high", "low", "close">>

\* C7: a response of the header line alone makes the fetcher fail with
\* StockApiException naming the symbol, never return an empty list.
C7_HeaderOnlyFails ==
    (fpc = "done" /\ WellFormed(market[FetchTicker])
                  /\ market[FetchTicker].dates = {}) =>
        /\ fout.exc.kind = "StockApiException"
        /\ fout.exc.symbol = FetchTicker

\* the row of cutDate lacks a column that a requested measure needs
ShortRow(m, measures) ==
    /\ m.header /\ m.fault = "none" /\ m.cutDate # 0
    /\ \E k \in 1..Len(measures) :
          measures[k] \in DOMAIN mapping /\ m.cutCols < mapping[measures[k]] + 1

\* C8: a row with fewer columns than a requested measure needs makes the
\* fetcher fail with StockApiException naming the symbol and the end date, and
\* no record is returned.
C8_ShortRowFails ==
    (fpc = "done" /\ ShortRow(market[FetchTicker], fargs.measures)) =>
        /\ fout.exc = StockApiException(FetchTicker, criteria.end_date)
        /\ fout.ret = <<>>

\* C9: when the request fails at the transport level, no second request is
\* issued and the caller gets StockApiException with the symbol and the end date.
C9_TransportFailure ==
    (fpc = "done" /\ market[FetchTicker].fault = "connect") =>
        /\ Len(requests) = 1
        /\ fout.exc = StockApiException(FetchTicker, criteria.end_date)

\* C10: run_query fetches the listed symbols in order, each once, merging each
\* series before the next fetch; when a fetch fails nothing later is fetched or
\* merged and run_query does not return True.
C10_FetchMergeOrder ==
    /\ IsPrefix(requests, criteria.stock_symbol)
    /\ IsPrefix(merges, requests)
    /\ Len(requests) - Len(merges) \in {0, 1}
    /\ pc = "fetch" => merges = requests
    /\ pc = "merge" => Len(requests) = Len(merges) + 1
    /\ Len(fetched) = Len(merges)
    /\ outcome.returned = "True" =>
          /\ pc = "done"
          /\ requests = criteria.stock_symbol
          /\ merges = criteria.stock_symbol
    /\ outcome.exc.kind # "none" =>
          /\ pc = "raised"
          /\ outcome.returned # "True"
          /\ Len(merges) = IF requests = <<>> THEN 0 ELSE Len(requests) - 1
          /\ ~ENABLED Next

C10_Witness ==
    /\ pc = "raised"
    /\ Len(criteria.stock_symbol) = 3
    /\ Len(requests) = 2
    /\ Len(merges) = 1
    /\ data # <<>>

\* the request of the command line is one the claim calls invalid
CliInvalid ==
    \/ options.symbol = ""
    \/ \E f \in {<<"adjclose">>, <<>>} :
          \E k \in 1..Len(Split(options.measures)) : Split(options.measures)[k] = f
    \/ options.resolution \notin {"day", "week"}
    \/ /\ IsDateText(options.begin) /\ IsDateText(options.end)
       /\ \/ DateVal(options.begin) > DateVal(options.end)
          \/ DateVal(options.begin) > today

TakenSoFar(n) == {criteria.stock_symbol[k] : k \in 1..n}

\* C12: run_query deletes every earlier non-key column before the first fetch
\* or merge and declares one column per symbol of the request, so after any
\* sequence of runs the non-key columns of a completed run are exactly its
\* symbols and the key columns are untouched.
C12_ColumnsOfLastRequest ==
    /\ {c \in columns : c.iskey} = {KeyColumn}
    /\ query \in {"price", "volume"} =>
          /\ pc = "fetch" => NonKeyNames(columns) = TakenSoFar(idx) /\ merges = requests
          /\ pc = "merge" => NonKeyNames(columns) = TakenSoFar(idx + 1)
          /\ pc = "done" => NonKeyNames(columns) = Listed(criteria.stock_symbol)

C12_Witness ==
    /\ pc = "done"
    /\ runs = 1
    /\ stale = {"AAA", "BBB"}
    /\ criteria.stock_symbol = <<"BBB">>
    /\ NonKeyNames(columns) = {"BBB"}

\* C13: with no stock device, prepare marks the job as errored and the run
\* stops there: no table column is deleted, no fetch is issued, self.data is
\* left alone and the run does not report success.
C13_NoDeviceStops ==
    jobError =>
        /\ columns = {KeyColumn} \cup {[name |-> n, iskey |-> FALSE] : n \in stale}
        /\ requests = <<>>
        /\ data = <<>>
        /\ outcome.returned # "True"

====
